---- MODULE Spec2Model ----
(***************************************************************************)
(* Model of coverme.py: construction of a Backup from parsed settings      *)
(* (create_with_config, validate, __init__, _new_sources, _new_vaults),    *)
(* and one call of Backup.run from the command-line entry point (cli).     *)
(*                                                                         *)
(* External calls (tempfile.mkdtemp, subprocess.call, shutil.make_archive, *)
(* the boto3 upload calls) are nondeterministic: each returns one of its   *)
(* possible results or raises.                                             *)
(***************************************************************************)
EXTENDS Integers, Sequences, FiniteSets, TLC

\* ------------------------------------------------------------------ bounds
MaxSources == 2     \* longest backups list enumerated
MaxVaults == 2      \* largest vaults mapping enumerated

\* ------------------------------------------------------------- vocabulary
None == "None"      \* what dict.get returns for an absent key

\* values of c.get(type): "file" stands for any string other than the two
\* the code tests for
SourceTypes == {"database", "dir", "file", None}

\* url.scheme of a database entry; "oracle" stands for any other scheme
Schemes == {"postgres", "mysql", "oracle"}

\* url.path stripped of slashes of a database entry
DbNames == {"", "mydb"}

\* one element of settings[backups]
SourceConfigs ==
    {[type |-> "database", scheme |-> s, db |-> d] :
        s \in {"postgres", "mysql"}, d \in DbNames}
    \cup {[type |-> "database", scheme |-> "oracle", db |-> "mydb"]}
    \cup {[type |-> t, scheme |-> None, db |-> None] : t \in {"dir", "file", None}}

\* v.get(service) of one element of settings[vaults]: "ftp" stands for
\* any other non-empty string, "" for a key present with an empty value
Services == {"glacier", "s3", "ftp", "", None}

SeqsUpTo(S, n) == UNION {[1..k -> S] : k \in 0..n}

\* a section of the settings document is absent, or present with its items;
\* the items of vaults are listed in the dict's iteration order and the
\* key of an item is its position
Sections(S, n) ==
    {[present |-> FALSE, items |-> <<>>]}
    \cup {[present |-> TRUE, items |-> s] : s \in SeqsUpTo(S, n)}

Settings ==
    [backups : Sections(SourceConfigs, MaxSources),
     vaults : Sections(Services, MaxVaults)]

\* ------------------------------------------------------------------ state
VARIABLES
    settings,   \* the parsed settings document
    pc,         \* position of control
    errors,     \* the errors dict of create_with_config: set of [key, msg]
    created,    \* TRUE when create_with_config returned an instance
    sources,    \* self.sources
    vaults,     \* self.vaults, in iteration order
    idx,        \* position of source in self.sources during run
    temp_dir,   \* local temp_dir of archive (0: not assigned)
    not_empty,  \* local not_empty of archive
    arch_path,  \* local arch_path (0: None / not assigned)
    vidx,       \* position of vault in self.vaults.values() during run
    dirs,       \* staging directories that exist under the temp root
    files,      \* archive files that exist under the temp root
    next_dir,   \* next unique name handed out by tempfile.mkdtemp
    exit_code,  \* process exit status (-1 while running)
    log,        \* history of the calls made, in order
    reports,    \* the outcome lines run has printed for the uploads
    prefix,     \* base name archive rendered for the staging directory
    dump_file,  \* name of the dump file in the staging directory
    dump_status, \* exit status of the dump subprocess (-1: none was run)
    tree_files  \* files under the path of a directory source (-1: not a
                \* directory source)

vars == <<settings, pc, errors, created, sources, vaults, idx, temp_dir,
          not_empty, arch_path, vidx, dirs, files, next_dir, exit_code, log,
          reports, prefix, dump_file, dump_status, tree_files>>

Event(op, src, vault, res) == [op |-> op, src |-> src, vault |-> vault, res |-> res]

\* --------------------------------------------------------------- validate
\* settings.get(name) is falsy: the section is absent or empty
EmptySection(sec) == ~sec.present \/ sec.items = <<>>

\* validate with the vaults check left out
validate_backups_only(s) ==
    IF EmptySection(s.backups)
    THEN {[key |-> "backups", msg |-> "Section backups is empty"]} ELSE {}

validate(s) ==
    (IF EmptySection(s.backups)
        THEN {[key |-> "backups", msg |-> "Section backups is empty"]} ELSE {})
    \cup
    (IF EmptySection(s.vaults)
        THEN {[key |-> "vaults", msg |-> "Section vaults is empty"]} ELSE {})

\* ----------------------------------------------------------- _new_sources
NoError == "ok"
Unbound == [kind |-> "unbound", entry |-> 0]

\* PostgresqlBackupSource.__init__
PostgresqlBackupSource(c, k) ==
    IF c.db = ""
    THEN [error |-> "Database is not defined", source |-> Unbound]
    ELSE [error |-> NoError, source |-> [kind |-> "Postgresql", entry |-> k]]

\* BackupSource.__init__ as inherited by MySQLBackupSource and DirBackupSource
BackupSource(kind, k) ==
    [error |-> NoError, source |-> [kind |-> kind, entry |-> k]]

\* the selection with the mysql branch constructing the postgres class
SelectSource_mysql_as_postgres(c, k, source) ==
    IF c.type = "database"
    THEN IF c.scheme \in {"postgres", "mysql"} THEN PostgresqlBackupSource(c, k)
         ELSE [error |-> "Unknown database source scheme", source |-> source]
    ELSE IF c.type = "dir" THEN BackupSource("Dir", k)
    ELSE [error |-> NoError, source |-> source]

\* body of the for loop of _new_sources up to, not including, the append:
\* source is the loop-carried local, Unbound before its first assignment
SelectSource(c, k, source) ==
    IF c.type = "database"
    THEN IF c.scheme = "postgres" THEN PostgresqlBackupSource(c, k)
         ELSE IF c.scheme = "mysql" THEN BackupSource("MySQL", k)
         ELSE [error |-> "Unknown database source scheme", source |-> source]
    ELSE IF c.type = "dir" THEN BackupSource("Dir", k)
    ELSE [error |-> NoError, source |-> source]

RECURSIVE new_sources_loop(_, _, _, _)
new_sources_loop(config_list, k, source, acc) ==
    IF k > Len(config_list)
    THEN [error |-> NoError, sources |-> acc]
    ELSE LET r == SelectSource(config_list[k], k, source) IN
         IF r.error # NoError
         THEN [error |-> r.error, sources |-> <<>>]
         ELSE IF r.source = Unbound
         \* sources.append(source) reads a local that was never assigned
         THEN [error |-> "UnboundLocalError", sources |-> <<>>]
         ELSE new_sources_loop(config_list, k + 1, r.source, Append(acc, r.source))

new_sources(config_list) == new_sources_loop(config_list, 1, Unbound, <<>>)

\* ------------------------------------------------------------ _new_vaults
\* the selection without the test that tells a wrong service from none
SelectVault_one_error(v_service, k) ==
    IF v_service = "glacier"
    THEN [error |-> NoError, vault |-> [kind |-> "Glacier", name |-> k]]
    ELSE IF v_service = "s3"
    THEN [error |-> NoError, vault |-> [kind |-> "S3", name |-> k]]
    ELSE [error |-> "Unknown vault service", vault |-> [kind |-> "none", name |-> k]]

\* for every value of config_dict: route on v.get(service); the test of v_service
\* is false for an absent key and for an empty value
SelectVault(v_service, k) ==
    IF v_service = "glacier"
    THEN [error |-> NoError, vault |-> [kind |-> "Glacier", name |-> k]]
    ELSE IF v_service = "s3"
    THEN [error |-> NoError, vault |-> [kind |-> "S3", name |-> k]]
    ELSE IF v_service \notin {"", None}
    THEN [error |-> "Unknown vault service", vault |-> [kind |-> "none", name |-> k]]
    ELSE [error |-> "Key service is missing", vault |-> [kind |-> "none", name |-> k]]

RECURSIVE new_vaults_loop(_, _, _)
new_vaults_loop(config_dict, k, acc) ==
    IF k > Len(config_dict)
    THEN [error |-> NoError, vaults |-> acc]
    ELSE LET r == SelectVault(config_dict[k], k) IN
         IF r.error # NoError
         THEN [error |-> r.error, vaults |-> <<>>]
         ELSE new_vaults_loop(config_dict, k + 1, Append(acc, r.vault))

new_vaults(config_dict) == new_vaults_loop(config_dict, 1, <<>>)

\* ------------------------------------------------- names, clock and files
\* time passed, at a later reading of the wall clock, since the reading made
\* when the staging directory of the current source was named: none or some
Elapsed == {0, 1}

\* no name rendered / no file
NoName == [pattern |-> "", at |-> -1]

\* BackupSource.get_base_name: the name pattern filled in with the fields
\* of datetime.now(), down to the microsecond, at the moment of the call
get_base_name(now) == [pattern |-> "name", at |-> now]

\* exit statuses of the dump subprocess: 0 and a failure
ExitStatuses == {0, 1}

\* numbers of files found under the path of a directory source
DirFiles == {0, 3}

\* shutil.make_archive(dir_name, root_dir=dir_name, ...): the file is named
\* dir_name plus the extension of the format and so lies in the parent of
\* dir_name, the temp root (parent 0), not inside dir_name
ArchiveFile_inside(dir_name) == [stem |-> dir_name, parent |-> dir_name]

ArchiveFile(dir_name) == [stem |-> dir_name, parent |-> 0]

\* rmtree that also removes what is named after the directory
rmtree_files_named(fs, d) == {f \in fs : f.parent # d /\ f.stem # d}

\* shutil.rmtree(d): the files that remain are those not inside d
rmtree_files(fs, d) == {f \in fs : f.parent # d}

\* open(archive_path) succeeds
Exists(fs, path) == \E f \in fs : f.stem = path

\* ------------------------------------------------------------------- Init
Init ==
    /\ settings \in Settings
    /\ pc = "create_with_config"
    /\ errors = {}
    /\ created = FALSE
    /\ sources = <<>>
    /\ vaults = <<>>
    /\ idx = 0
    /\ temp_dir = 0
    /\ not_empty = None
    /\ arch_path = 0
    /\ vidx = 0
    /\ dirs = {}
    /\ files = {}
    /\ next_dir = 1
    /\ exit_code = -1
    /\ log = <<>>
    /\ reports = <<>>
    /\ prefix = NoName
    /\ dump_file = NoName
    /\ dump_status = -1
    /\ tree_files = -1

archiveVars == <<prefix, dump_file, dump_status, tree_files>>

runVars == <<idx, temp_dir, not_empty, arch_path, vidx, dirs, files, next_dir,
             reports, prefix, dump_file, dump_status, tree_files>>

PathError == [key |-> "path", msg |-> "backup.yml"]

\* ----------------------------------------------------- create_with_config
\* errors = cls.validate(**settings); on errors: add the path, return None
CreateValidate ==
    /\ pc = "create_with_config"
    /\ LET e == validate(settings) IN
        IF e = {}
        THEN /\ errors' = {}
             /\ pc' = "init_sources"
        ELSE /\ errors' = e \cup {PathError}
             /\ pc' = "main"
    /\ UNCHANGED <<settings, created, sources, vaults, exit_code, log>>
    /\ UNCHANGED runVars

\* create_with_config without the except clause filling errors
InitSources_error_dropped ==
    /\ pc = "init_sources"
    /\ LET r == new_sources(settings.backups.items) IN
        /\ log' = log \o <<Event("__init__", 0, 0, NoError),
                           Event("_new_sources", 0, 0, r.error)>>
        /\ IF r.error = NoError
           THEN /\ sources' = r.sources
                /\ pc' = "init_vaults"
           ELSE /\ sources' = sources
                /\ pc' = "main"
    /\ UNCHANGED <<settings, errors, created, vaults, exit_code>>
    /\ UNCHANGED runVars

\* Backup.__init__, self.sources = self._new_sources(settings[backups]);
\* an exception is caught by create_with_config: errors gets the exception and the path
InitSources ==
    /\ pc = "init_sources"
    /\ LET r == new_sources(settings.backups.items) IN
        /\ log' = log \o <<Event("__init__", 0, 0, NoError),
                           Event("_new_sources", 0, 0, r.error)>>
        /\ IF r.error = NoError
           THEN /\ sources' = r.sources
                /\ errors' = errors
                /\ pc' = "init_vaults"
           ELSE /\ sources' = sources
                /\ errors' = {[key |-> "", msg |-> r.error], PathError}
                /\ pc' = "main"
    /\ UNCHANGED <<settings, created, vaults, exit_code>>
    /\ UNCHANGED runVars

\* Backup.__init__, self.vaults = self._new_vaults(settings[vaults]), and
\* the return of create_with_config
InitVaults ==
    /\ pc = "init_vaults"
    /\ LET r == new_vaults(settings.vaults.items) IN
        /\ log' = Append(log, Event("_new_vaults", 0, 0, r.error))
        /\ IF r.error = NoError
           THEN /\ vaults' = r.vaults
                /\ errors' = errors
                /\ created' = TRUE
           ELSE /\ vaults' = vaults
                /\ errors' = {[key |-> "", msg |-> r.error], PathError}
                /\ created' = FALSE
    /\ pc' = "main"
    /\ UNCHANGED <<settings, sources, exit_code>>
    /\ UNCHANGED runVars

\* -------------------------------------------------------------------- cli
\* main reporting the errors without the sys.exit(1) that follows
Main_no_exit ==
    /\ pc = "main"
    /\ pc' = "run"
    /\ UNCHANGED <<settings, errors, created, sources, vaults, exit_code, log>>
    /\ UNCHANGED runVars

\* main: if errors: report and sys.exit(1); otherwise backup.run()
Main ==
    /\ pc = "main"
    /\ IF errors # {}
       THEN /\ pc' = "exit"
            /\ exit_code' = 1
       ELSE /\ pc' = "run"
            /\ exit_code' = exit_code
    /\ UNCHANGED <<settings, errors, created, sources, vaults, log>>
    /\ UNCHANGED runVars

\* -------------------------------------------------------------- Backup.run
\* the loop over self.sources taken from the last source to the first
RunNext_reversed ==
    /\ pc = "run"
    /\ IF idx = 0 /\ Len(sources) > 0
       THEN /\ idx' = Len(sources)
            /\ pc' = "make_temp_dir"
            /\ exit_code' = exit_code
       ELSE IF idx > 1
       THEN /\ idx' = idx - 1
            /\ pc' = "make_temp_dir"
            /\ exit_code' = exit_code
       ELSE /\ idx' = idx
            /\ pc' = "exit"
            /\ exit_code' = 0
    /\ temp_dir' = 0
    /\ arch_path' = 0
    /\ not_empty' = None
    /\ vidx' = 0
    /\ prefix' = NoName
    /\ dump_file' = NoName
    /\ dump_status' = -1
    /\ tree_files' = -1
    /\ UNCHANGED <<settings, errors, created, sources, vaults, dirs, files,
                   next_dir, log, reports>>

\* for source in self.sources: next source, or the loop (and main) ends;
\* the locals of the previous call of archive are gone
RunNext ==
    /\ pc = "run"
    /\ IF idx < Len(sources)
       THEN /\ idx' = idx + 1
            /\ pc' = "make_temp_dir"
            /\ exit_code' = exit_code
       ELSE /\ idx' = idx
            /\ pc' = "exit"
            /\ exit_code' = 0
    /\ temp_dir' = 0
    /\ arch_path' = 0
    /\ not_empty' = None
    /\ vidx' = 0
    /\ prefix' = NoName
    /\ dump_file' = NoName
    /\ dump_status' = -1
    /\ tree_files' = -1
    /\ UNCHANGED <<settings, errors, created, sources, vaults, dirs, files,
                   next_dir, log, reports>>

\* archive: temp_dir = self._make_temp_dir(source.get_base_name()); the
\* base name is rendered here, at elapsed time 0
make_temp_dir ==
    /\ pc = "make_temp_dir"
    /\ \/ /\ temp_dir' = next_dir
          /\ next_dir' = next_dir + 1
          /\ dirs' = dirs \cup {next_dir}
          /\ prefix' = get_base_name(0)
          /\ log' = Append(log, Event("make_temp_dir", idx, 0, NoError))
          /\ pc' = "copy_data"
       \/ /\ log' = Append(log, Event("make_temp_dir", idx, 0, "raise"))
          /\ pc' = "raised"
          /\ UNCHANGED <<temp_dir, next_dir, dirs, prefix>>
    /\ UNCHANGED <<settings, errors, created, sources, vaults, idx, not_empty,
                   arch_path, vidx, files, exit_code, reports, dump_file,
                   dump_status, tree_files>>

\* PostgresqlBackupSource.copy_data: the dump is written to the file named
\* by a second call of get_base_name, made now; result = subprocess.call,
\* which raises when pg_dump cannot be started; return (result == 0)
PostgresqlCopyData ==
    {[res |-> (IF st = 0 THEN "True" ELSE "False"), status |-> st,
      dump |-> get_base_name(now), found |-> -1] :
        st \in ExitStatuses, now \in Elapsed}
    \cup {[res |-> "raise", status |-> -1, dump |-> NoName, found |-> -1]}

\* MySQLBackupSource.copy_data: the body is pass, the call returns None
MySQLCopyData ==
    {[res |-> None, status |-> -1, dump |-> NoName, found |-> -1]}

\* DirBackupSource.copy_data: the body is pass, the call returns None
\* whatever lies under the path of the source
DirCopyData ==
    {[res |-> None, status |-> -1, dump |-> NoName, found |-> n] : n \in DirFiles}

\* outcomes of source.copy_data(temp_dir) by class of the source
CopyDataResults(source) ==
    IF source.kind = "Postgresql" THEN PostgresqlCopyData
    ELSE IF source.kind = "MySQL" THEN MySQLCopyData
    ELSE DirCopyData

\* the branch taken as a test against False only
Truthy_not_false(v) == v # "False"

\* the test of not_empty in archive
Truthy(v) == v = "True"

\* archive: not_empty = source.copy_data(temp_dir), and the branch on it
copy_data ==
    /\ pc = "copy_data"
    /\ \E r \in CopyDataResults(sources[idx]) :
        /\ log' = Append(log, Event("copy_data", idx, 0, r.res))
        /\ dump_file' = r.dump
        /\ dump_status' = r.status
        /\ tree_files' = r.found
        /\ IF r.res = "raise"
           THEN /\ pc' = "raised"
                /\ UNCHANGED <<not_empty, arch_path>>
           ELSE /\ not_empty' = r.res
                /\ IF Truthy(r.res)
                   THEN /\ pc' = "make_archive"
                        /\ arch_path' = arch_path
                   ELSE /\ pc' = "rmtree"
                        /\ arch_path' = 0
    /\ UNCHANGED <<settings, errors, created, sources, vaults, idx, temp_dir,
                   vidx, dirs, files, next_dir, exit_code, reports, prefix>>

\* _make_archive followed at once by the uploads, the rmtree left for later
make_archive_then_upload ==
    /\ pc = "make_archive"
    /\ \/ /\ arch_path' = temp_dir
          /\ files' = files \cup {ArchiveFile(temp_dir)}
          /\ log' = Append(log, Event("make_archive", idx, 0, NoError))
          /\ pc' = "upload"
          /\ vidx' = 1
       \/ /\ log' = Append(log, Event("make_archive", idx, 0, "raise"))
          /\ pc' = "raised"
          /\ UNCHANGED <<arch_path, files, vidx>>
    /\ UNCHANGED <<settings, errors, created, sources, vaults, idx, temp_dir,
                   not_empty, dirs, next_dir, exit_code, reports>>
    /\ UNCHANGED archiveVars

\* archive: arch_path = self._make_archive(temp_dir); the archive file is
\* named after the staging directory and lies beside it
make_archive ==
    /\ pc = "make_archive"
    /\ \/ /\ arch_path' = temp_dir
          /\ files' = files \cup {ArchiveFile(temp_dir)}
          /\ log' = Append(log, Event("make_archive", idx, 0, NoError))
          /\ pc' = "rmtree"
       \/ /\ log' = Append(log, Event("make_archive", idx, 0, "raise"))
          /\ pc' = "raised"
          /\ UNCHANGED <<arch_path, files>>
    /\ UNCHANGED <<settings, errors, created, sources, vaults, idx, temp_dir,
                   not_empty, vidx, dirs, next_dir, exit_code, reports>>
    /\ UNCHANGED archiveVars

\* the rmtree moved into the non-empty branch
rmtree_nonempty_only ==
    /\ pc = "rmtree"
    /\ dirs' = (IF arch_path # 0 THEN dirs \ {temp_dir} ELSE dirs)
    /\ files' = (IF arch_path # 0 THEN rmtree_files(files, temp_dir) ELSE files)
    /\ dump_file' = (IF arch_path # 0 THEN NoName ELSE dump_file)
    /\ log' = Append(log, Event("rmtree", idx, 0, NoError))
    /\ IF arch_path # 0
       THEN /\ pc' = "upload"
            /\ vidx' = 1
       ELSE /\ pc' = "run"
            /\ vidx' = vidx
    /\ UNCHANGED <<settings, errors, created, sources, vaults, idx, temp_dir,
                   not_empty, arch_path, next_dir, exit_code, reports, prefix,
                   dump_status, tree_files>>

\* archive: shutil.rmtree(temp_dir, ignore_errors=True), which removes the
\* directory with the dump file in it; return arch_path;
\* run: if arch_path: enter the loop over the vaults
rmtree ==
    /\ pc = "rmtree"
    /\ dirs' = dirs \ {temp_dir}
    /\ files' = rmtree_files(files, temp_dir)
    /\ dump_file' = NoName
    /\ log' = Append(log, Event("rmtree", idx, 0, NoError))
    /\ IF arch_path # 0
       THEN /\ pc' = "upload"
            /\ vidx' = 1
       ELSE /\ pc' = "run"
            /\ vidx' = vidx
    /\ UNCHANGED <<settings, errors, created, sources, vaults, idx, temp_dir,
                   not_empty, arch_path, next_dir, exit_code, reports, prefix,
                   dump_status, tree_files>>

\* what the provider call of an upload gives back: a confirming object
\* (the archive of upload_archive, the object of put_object), nothing, or
\* an exception
ProviderResults == {"object", "none", "raise"}

\* the second element of the pair upload returns: None, or a dict
NoData == [nil |-> TRUE, keys |-> {}]
Data(keys) == [nil |-> FALSE, keys |-> keys]

\* upload returning the success pair whatever the provider gave back
VaultUpload_always_true(vault, provided) ==
    IF vault.kind = "Glacier"
    THEN [res |-> "True", data |-> Data({"id", "description"})]
    ELSE [res |-> "True", data |-> Data({"key"})]

\* GlacierVault.upload and S3Bucket.upload after the provider call returned
VaultUpload(vault, provided) ==
    IF provided = "object"
    THEN IF vault.kind = "Glacier"
         THEN [res |-> "True", data |-> Data({"id", "description"})]
         ELSE [res |-> "True", data |-> Data({"key"})]
    ELSE [res |-> "False", data |-> NoData]

\* outcomes of vault.upload(arch_path): the pair returned, or an exception
\* of the provider call or of open(archive_path) when the file is missing
UploadResults(vault, readable) ==
    {[res |-> "raise", data |-> NoData, provided |-> "raise"]}
    \cup (IF readable
          THEN {[res |-> VaultUpload(vault, p).res, data |-> VaultUpload(vault, p).data,
                 provided |-> p] : p \in ProviderResults \ {"raise"}}
          ELSE {})

\* the line run prints for the pair upload returned
Report(i, v, u) ==
    [src |-> i, vault |-> v, provided |-> u.provided, data |-> u.data,
     line |-> (IF u.res = "True" THEN "Uploaded to" ELSE "Not uploaded to")]

\* the loop over the vaults left at the first upload that is not a success
upload_stop_on_false ==
    /\ pc = "upload"
    /\ \E u \in UploadResults(vaults[vidx], Exists(files, arch_path)) :
        /\ log' = Append(log, Event("upload", idx, vidx, u.res))
        /\ IF u.res = "raise"
           THEN /\ pc' = "raised"
                /\ vidx' = vidx
                /\ reports' = reports
           ELSE /\ reports' = Append(reports, Report(idx, vidx, u))
                /\ IF vidx < Len(vaults) /\ u.res = "True"
                   THEN /\ pc' = "upload"
                        /\ vidx' = vidx + 1
                   ELSE /\ pc' = "run"
                        /\ vidx' = vidx
    /\ UNCHANGED <<settings, errors, created, sources, vaults, idx, temp_dir,
                   not_empty, arch_path, dirs, files, next_dir, exit_code>>
    /\ UNCHANGED archiveVars

\* run: success, data = vault.upload(arch_path), the report, next vault
upload ==
    /\ pc = "upload"
    /\ \E u \in UploadResults(vaults[vidx], Exists(files, arch_path)) :
        /\ log' = Append(log, Event("upload", idx, vidx, u.res))
        /\ IF u.res = "raise"
           THEN /\ pc' = "raised"
                /\ vidx' = vidx
                /\ reports' = reports
           ELSE /\ reports' = Append(reports, Report(idx, vidx, u))
                /\ IF vidx < Len(vaults)
                   THEN /\ pc' = "upload"
                        /\ vidx' = vidx + 1
                   ELSE /\ pc' = "run"
                        /\ vidx' = vidx
    /\ UNCHANGED <<settings, errors, created, sources, vaults, idx, temp_dir,
                   not_empty, arch_path, dirs, files, next_dir, exit_code>>
    /\ UNCHANGED archiveVars

\* the handler without its sys.exit(1)
CliExcept_exit0 ==
    /\ pc = "raised"
    /\ pc' = "exit"
    /\ exit_code' = 0
    /\ UNCHANGED <<settings, errors, created, sources, vaults, log>>
    /\ UNCHANGED runVars

\* cli: except Exception as e: report and sys.exit(1)
CliExcept ==
    /\ pc = "raised"
    /\ pc' = "exit"
    /\ exit_code' = 1
    /\ UNCHANGED <<settings, errors, created, sources, vaults, log>>
    /\ UNCHANGED runVars

Next ==
    \/ CreateValidate
    \/ InitSources
    \/ InitVaults
    \/ Main
    \/ RunNext
    \/ make_temp_dir
    \/ copy_data
    \/ make_archive
    \/ rmtree
    \/ upload
    \/ CliExcept

Spec == Init /\ [][Next]_vars

\* every call of the program returns or raises, and the interpreter then
\* takes the next step: no step that is possible is put off for ever
FairSpec == Spec /\ WF_vars(Next)


\* ---------------------------------------------------- reading the history
Events(op, i) == {k \in DOMAIN log : log[k].op = op /\ log[k].src = i}
Uploads(i, v) == {k \in Events("upload", i) : log[k].vault = v}
NoRaise == \A k \in DOMAIN log : log[k].res # "raise"
NonEmpty(i) == \E k \in Events("copy_data", i) : log[k].res = "True"
RunFinished == pc = "exit" /\ created
\* the call made last is a call of op; log only grows, so what holds of the
\* last call in every state holds of every call
LastIs(op) == log # <<>> /\ log[Len(log)].op = op

\* ------------------------------------------------------------------- C1
\* C1: when a run over N sources and M vaults finishes and no call raised,
\* copy_data was called exactly once for each of the N sources, upload was
\* called exactly once per vault for each source whose copy_data returned
\* True and not at all for the others, so the uploads number M times the
\* non-empty sources; an upload that returned False is followed by the
\* uploads to the remaining vaults.
C1_AttemptCounts ==
    (RunFinished /\ NoRaise) =>
        LET copies == {k \in DOMAIN log : log[k].op = "copy_data"}
            ups == {k \in DOMAIN log : log[k].op = "upload"}
            full == {log[k].src : k \in {c \in copies : log[c].res = "True"}}
        IN /\ Cardinality(copies) = Len(sources)
           /\ {log[k].src : k \in copies} = 1..Len(sources)
           /\ Cardinality(ups) = Len(vaults) * Cardinality(full)
           /\ {<<log[k].src, log[k].vault>> : k \in ups} = full \X (1..Len(vaults))

\* a finished run of two sources and two vaults, one source empty, the other
\* non-empty with a first upload that returned False
C1_Witness ==
    /\ RunFinished /\ NoRaise
    /\ Len(sources) = 2 /\ Len(vaults) = 2
    /\ \E i, j \in 1..2 :
        /\ ~NonEmpty(i)
        /\ \E k \in Uploads(j, 1) : log[k].res = "False"
        /\ Uploads(j, 2) # {}

\* ------------------------------------------------------------------- C2
\* C2: _make_archive is called for a source, an archive file exists and an
\* upload is attempted for it only if that source's copy_data returned True;
\* after a copy_data that returned False or None, archive holds no path.
C2_ArchiveOnlyIfNonEmpty ==
    /\ (LastIs("make_archive") \/ LastIs("upload")) => NonEmpty(log[Len(log)].src)
    /\ Cardinality(files)
         <= Cardinality({k \in DOMAIN log : log[k].op = "copy_data" /\ log[k].res = "True"})
    /\ (pc \in {"rmtree", "upload"} /\ ~NonEmpty(idx)) => arch_path = 0
    /\ pc = "upload" => NonEmpty(idx)

\* a source whose copy_data reported empty went through its whole pipeline
C2_Witness ==
    \E i \in 1..Len(sources) :
        /\ \E k \in Events("copy_data", i) : log[k].res \in {"False", None}
        /\ Events("rmtree", i) # {}
        /\ pc = "run"

C4_CleanupOnEveryExit ==
    pc \in {"run", "upload", "raised", "exit"} => dirs = {}

\* ------------------------------------------------------------------- C5
\* C5 as stated: whenever the process of a constructed runner has ended,
\* every source of the list has had its copy_data attempted.
C5_ErrorsIsolated ==
    RunFinished => \A i \in 1..Len(sources) : Events("copy_data", i) # {}

\* C5 amended: an empty extraction and an upload that returned False do not
\* stop the run (without a raise every source has its copy_data attempted
\* and every vault its upload for each non-empty source), while a raised
\* error ends it there: the raising call is the last call made, no later
\* source has copy_data attempted, and the process exits with status 1.
C5_RaiseEndsRun ==
    /\ (RunFinished /\ NoRaise) =>
        /\ exit_code = 0
        /\ \A i \in 1..Len(sources) :
            /\ Events("copy_data", i) # {}
            /\ NonEmpty(i) => \A v \in 1..Len(vaults) : Uploads(i, v) # {}
    /\ \A k \in DOMAIN log : log[k].res = "raise" =>
        /\ k = Len(log)
        /\ pc \in {"raised", "exit"}
        /\ pc = "exit" => exit_code = 1
        /\ \A i \in 1..Len(sources) : i > log[k].src => Events("copy_data", i) = {}

\* the first of two sources raised and the process has exited with status 1
C5_Witness ==
    /\ RunFinished /\ Len(sources) = 2 /\ exit_code = 1
    /\ \E k \in DOMAIN log : log[k].res = "raise" /\ log[k].src = 1
    /\ Events("copy_data", 2) = {}

\* ------------------------------------------------------------------- C6
\* C6 as stated: no upload attempt for a source comes after the removal of
\* that source's staging directory.
C6_CleanupAfterUploads ==
    \A i \in 1..Len(sources) :
        \A u \in Events("upload", i) : \A r \in Events("rmtree", i) : u < r

\* C6 amended: the steps of a non-empty source occur in the order stage,
\* extract, pack, cleanup, upload to all vaults: every upload attempt for a
\* source comes after the removal of its staging directory, which comes
\* after its packing, its extraction and its staging, and during the
\* uploads the staging directory no longer exists.
C6_CleanupBeforeUploads ==
    /\ LastIs("upload") =>
        LET i == log[Len(log)].src
            S == Events("make_temp_dir", i)
            C == Events("copy_data", i)
            P == Events("make_archive", i)
            R == Events("rmtree", i)
        IN /\ S # {} /\ C # {} /\ P # {} /\ R # {}
           /\ \A s \in S, c \in C : s < c
           /\ \A c \in C, p \in P : c < p
           /\ \A p \in P, r \in R : p < r
           /\ \A r \in R : r < Len(log)
    /\ pc = "upload" => temp_dir \notin dirs

\* a source has been uploaded to every vault
C6_Witness ==
    /\ pc = "run" /\ idx > 0 /\ Len(vaults) = 2
    /\ \A v \in 1..Len(vaults) : Uploads(idx, v) # {}

\* ------------------------------------------------------------------- C7
BadType(c) == c.type \notin {"database", "dir"}
SourcesBuilt == \E k \in DOMAIN log : log[k].op = "_new_sources"

\* C7: when the source list holds an entry whose type is missing or is
\* neither database nor dir, _new_sources fails, no runner is produced and
\* self.sources receives no source object.
C7_BadTypeFails ==
    (SourcesBuilt /\ \E k \in DOMAIN settings.backups.items :
                        BadType(settings.backups.items[k])) =>
        /\ ~created
        /\ sources = <<>>
        /\ \A k \in DOMAIN log : log[k].op = "_new_sources" => log[k].res # NoError

\* ------------------------------------------------------------------- C8
Variant(c) ==
    IF c.type = "dir" THEN "Dir"
    ELSE IF c.scheme = "postgres" THEN "Postgresql" ELSE "MySQL"
TypesKnown == \A k \in DOMAIN settings.backups.items :
                  ~BadType(settings.backups.items[k])
SchemeKnown(c) == c.type = "database" => c.scheme \in {"postgres", "mysql"}
DbNamed(c) == (c.type = "database" /\ c.scheme = "postgres") => c.db # ""
SourcesResult == log[CHOOSE k \in DOMAIN log : log[k].op = "_new_sources"].res
InOrder ==
    /\ Len(sources) = Len(settings.backups.items)
    /\ \A k \in DOMAIN sources :
        /\ sources[k].kind = Variant(settings.backups.items[k])
        /\ sources[k].entry = k

\* C8 as stated: for a list of database and dir entries, if every database
\* scheme is postgres or mysql the sources are the selected variants in
\* declaration order, and otherwise construction fails with the
\* unsupported-scheme error and no runner is produced.
C8_RoutingByScheme ==
    (SourcesBuilt /\ TypesKnown) =>
        IF \A k \in DOMAIN settings.backups.items :
               SchemeKnown(settings.backups.items[k])
        THEN SourcesResult = NoError /\ InOrder
        ELSE /\ SourcesResult = "Unknown database source scheme"
             /\ sources = <<>> /\ ~created

\* C8 amended: for a list of database and dir entries, if every database
\* scheme is postgres or mysql and every postgres URL names a database, the
\* sources are the selected variants in declaration order, one per entry;
\* otherwise construction fails with the error of the first offending entry
\* (unsupported scheme, or database not defined) and no runner is produced.
C8_RoutingBySchemeAndDb ==
    (SourcesBuilt /\ TypesKnown) =>
        LET items == settings.backups.items
            bad == {k \in DOMAIN items : ~SchemeKnown(items[k]) \/ ~DbNamed(items[k])}
        IN IF bad = {}
           THEN SourcesResult = NoError /\ InOrder
           ELSE LET f == CHOOSE k \in bad : \A j \in bad : k <= j IN
                /\ SourcesResult = (IF ~SchemeKnown(items[f])
                                    THEN "Unknown database source scheme"
                                    ELSE "Database is not defined")
                /\ sources = <<>> /\ ~created

\* a postgres entry followed by a mysql entry has been constructed
C8_Witness ==
    /\ SourcesBuilt /\ TypesKnown
    /\ Len(sources) = 2
    /\ sources[1].kind = "Postgresql" /\ sources[2].kind = "MySQL"

\* ------------------------------------------------------------------- C9
VaultsBuilt == \E k \in DOMAIN log : log[k].op = "_new_vaults"
VaultsResult == log[CHOOSE k \in DOMAIN log : log[k].op = "_new_vaults"].res
VaultKind(v_service) == IF v_service = "glacier" THEN "Glacier" ELSE "S3"
BadServices == {k \in DOMAIN settings.vaults.items :
                   settings.vaults.items[k] \notin {"glacier", "s3"}}
FirstBadService == CHOOSE k \in BadServices : \A j \in BadServices : k <= j
OnePerName ==
    /\ Len(vaults) = Len(settings.vaults.items)
    /\ \A k \in DOMAIN vaults :
        /\ vaults[k].kind = VaultKind(settings.vaults.items[k])
        /\ vaults[k].name = k

\* C9 as stated: glacier and s3 entries construct their two distinct
\* variants, one vault per name; a service key present with any other value
\* fails with the unknown-service error and an absent service key with the
\* missing-service error.
C9_RoutingByService ==
    VaultsBuilt =>
        IF BadServices = {}
        THEN VaultsResult = NoError /\ OnePerName /\ created
        ELSE /\ VaultsResult = (IF settings.vaults.items[FirstBadService] # None
                                THEN "Unknown vault service"
                                ELSE "Key service is missing")
             /\ vaults = <<>> /\ ~created

\* C9 amended: glacier and s3 entries construct their two distinct variants,
\* one vault per name; a service key present with any other non-empty value
\* fails with the unknown-service error; an entry whose service key is
\* absent, or present with an empty value, fails with the missing-service
\* error; the two errors differ.
C9_RoutingByNonEmptyService ==
    VaultsBuilt =>
        IF BadServices = {}
        THEN VaultsResult = NoError /\ OnePerName /\ created
        ELSE /\ VaultsResult = (IF settings.vaults.items[FirstBadService] \notin {"", None}
                                THEN "Unknown vault service"
                                ELSE "Key service is missing")
             /\ vaults = <<>> /\ ~created

\* a glacier and an s3 vault have been constructed from the same mapping
C9_Witness ==
    /\ VaultsBuilt /\ created
    /\ Len(vaults) = 2
    /\ vaults[1].kind # vaults[2].kind

\* ------------------------------------------------------------------ C10
Offending ==
    (IF EmptySection(settings.backups) THEN {"backups"} ELSE {})
    \cup (IF EmptySection(settings.vaults) THEN {"vaults"} ELSE {})

\* C10: when the backups section or the vaults section is missing or empty,
\* create_with_config reports one error per offending section (beside the
\* path), returns no instance, and __init__, _new_sources and _new_vaults
\* are never entered: no source or vault object ever exists.
C10_RejectedBeforeConstruction ==
    Offending # {} =>
        /\ pc # "create_with_config" =>
            /\ {e.key : e \in errors} = Offending \cup {"path"}
            /\ Cardinality(errors) = Cardinality(Offending) + 1
        /\ pc \notin {"init_sources", "init_vaults"}
        /\ \A k \in DOMAIN log : log[k].op \notin {"__init__", "_new_sources", "_new_vaults"}
        /\ sources = <<>> /\ vaults = <<>> /\ ~created

\* both sections are empty and the process has exited on the two errors
C10_Witness ==
    /\ Offending = {"backups", "vaults"}
    /\ pc = "exit" /\ exit_code = 1
    /\ Cardinality(errors) = 3

\* ------------------------------------------------------------------ C11
Returned == pc \notin {"create_with_config", "init_sources", "init_vaults"}
ConstructionErrors ==
    {"Unknown database source scheme", "Database is not defined",
     "UnboundLocalError", "Unknown vault service", "Key service is missing"}
Constructed(op) == \E k \in DOMAIN log : log[k].op = op
ResultOf(op) == log[CHOOSE k \in DOMAIN log : log[k].op = op].res

\* C11: once create_with_config has returned, it has returned either an
\* instance and no errors or no instance and a non-empty error set, never
\* both and never neither; an error raised by _new_sources or _new_vaults
\* is in the returned error set and is never left to the caller.
C11_InstanceXorErrors ==
    Returned =>
        /\ created <=> errors = {}
        /\ \A op \in {"_new_sources", "_new_vaults"} :
            (Constructed(op) /\ ResultOf(op) # NoError) =>
                /\ [key |-> "", msg |-> ResultOf(op)] \in errors
                /\ ~created
                /\ pc # "raised"

\* _new_vaults raised on a bad service and the error came back in the set
C11_Witness ==
    /\ pc = "main" /\ ~created
    /\ [key |-> "", msg |-> "Unknown vault service"] \in errors
    /\ sources # <<>>

\* ------------------------------------------------------------------ C12
RunOps == {"make_temp_dir", "copy_data", "make_archive", "rmtree", "upload"}

\* C12: when create_with_config reported errors the process exits with
\* status 1 and no staging directory is created, no copy_data and no upload
\* is called; a run that ends without an uncaught error exits with status 0
\* and a run in which a call raised exits with status 1.
C12_NoRunOnErrors ==
    /\ (Returned /\ errors # {}) =>
        /\ \A k \in DOMAIN log : log[k].op \notin RunOps
        /\ dirs = {} /\ files = {} /\ next_dir = 1
        /\ pc \in {"main", "exit"}
        /\ pc = "exit" => exit_code = 1
    /\ (pc = "exit" /\ errors = {}) => exit_code = (IF NoRaise THEN 0 ELSE 1)
    /\ pc # "exit" => exit_code = -1

\* the process has exited on a construction error
C12_Witness ==
    /\ pc = "exit" /\ exit_code = 1
    /\ \E e \in errors : e.key = "" /\ e.msg \in ConstructionErrors

\* ------------------------------------------------------------------ C13
\* C13: no constructed database source has an empty database name: every
\* source of self.sources built from a database entry has a non-empty name.
C13_NamesValidated ==
    \A k \in DOMAIN sources :
        settings.backups.items[sources[k].entry].type = "database" =>
            settings.backups.items[sources[k].entry].db # ""

\* ------------------------------------------------------------------ C15
RunEvents == {k \in DOMAIN log : log[k].op \in RunOps}
LastRunCall == log # <<>> /\ log[Len(log)].op \in RunOps

\* C15: run takes the sources in declaration order, one at a time: each
\* call made during the run is made for a source that is not after the one
\* the loop is at and not before the source of any earlier call, so that
\* every step of one source precedes every step of the next; a run in which
\* no call raised has gone through every source; and every execution ends.
C15_InOrderAndEnds ==
    /\ [](LastRunCall =>
            /\ log[Len(log)].src <= idx
            /\ \A j \in RunEvents : log[j].src <= log[Len(log)].src)
    /\ []((pc = "exit" /\ created /\ NoRaise)
            => {log[k].src : k \in RunEvents} = 1..Len(sources))
    /\ <>(pc = "exit")

\* a run of two sources has ended after the steps of both
C15_Witness ==
    /\ RunFinished /\ NoRaise
    /\ Len(sources) = 2
    /\ Events("rmtree", 1) # {} /\ Events("rmtree", 2) # {}

\* ------------------------------------------------------------------ C14
UploadCalls == {k \in DOMAIN log : log[k].op = "upload"}
MetadataKeys(vault) ==
    IF vault.kind = "Glacier" THEN {"id", "description"} ELSE {"key"}

\* C14 as stated: every upload attempt has exactly one outcome line
\* reported for its source and vault.
C14_OneOutcomePerAttempt ==
    Len(reports) = Cardinality(UploadCalls)

\* C14 amended: every upload attempt that returns has exactly one outcome
\* line reported for its source and vault: the success line with non-nil
\* metadata (Glacier: id and description, S3: key) exactly when the
\* provider returned a confirming object, otherwise the failure line with
\* nil metadata; an upload attempt that raises has no outcome line.
C14_OneOutcomePerReturn ==
    /\ Len(reports) = Cardinality({k \in UploadCalls : log[k].res # "raise"})
    /\ (LastIs("upload") /\ log[Len(log)].res # "raise") =>
        /\ reports # <<>>
        /\ LET r == reports[Len(reports)]
               call == log[Len(log)]
           IN /\ r.src = call.src /\ r.vault = call.vault
              /\ \A j \in 1..(Len(reports) - 1) :
                    ~(reports[j].src = r.src /\ reports[j].vault = r.vault)
              /\ call.res = "True" <=> r.provided = "object"
              /\ r.provided = "object" =>
                    /\ r.line = "Uploaded to"
                    /\ ~r.data.nil
                    /\ r.data.keys = MetadataKeys(vaults[r.vault])
              /\ r.provided # "object" =>
                    /\ r.line = "Not uploaded to"
                    /\ r.data.nil

\* one archive went to a Glacier vault that confirmed it and to an S3
\* bucket that did not
C14_Witness ==
    /\ Len(reports) = 2
    /\ vaults[reports[1].vault].kind = "Glacier" /\ reports[1].line = "Uploaded to"
    /\ vaults[reports[2].vault].kind = "S3" /\ reports[2].line = "Not uploaded to"

\* ------------------------------------------------------------------ C16
\* C16: the dump file copy_data writes into the staging directory bears the
\* base name that was rendered for the staging directory.
C16_NameRenderedOnce ==
    dump_file # NoName => dump_file = prefix

\* ------------------------------------------------------------------ C17
\* C17: the copy_data of a directory source reports non-empty exactly when
\* there is at least one file under its path to copy.
C17_DirNonEmptyIffFiles ==
    (LastIs("copy_data") /\ sources[idx].kind = "Dir") =>
        (Truthy(not_empty) <=> tree_files > 0)

\* ------------------------------------------------------------------ C18
\* C18: the copy_data of a Postgres or MySQL source that returned has run
\* the dump subprocess and reports non-empty exactly when its exit status
\* is 0; after a nonzero status the source takes the empty branch.
C18_DumpStatusDecides ==
    (LastIs("copy_data") /\ sources[idx].kind \in {"Postgresql", "MySQL"}
        /\ log[Len(log)].res # "raise") =>
        /\ dump_status \in ExitStatuses
        /\ Truthy(not_empty) <=> dump_status = 0
        /\ dump_status # 0 => pc = "rmtree" /\ arch_path = 0

\* ------------------------------------------------------------------ C19
\* C19: whenever run is about to call upload, the archive file at arch_path
\* exists, in the temp root beside the place of the staging directory it
\* was packed from, and that staging directory has been removed.
C19_ArchiveOutlivesStaging ==
    pc = "upload" =>
        /\ arch_path = temp_dir
        /\ temp_dir \notin dirs
        /\ Exists(files, arch_path)
        /\ \A f \in files : f.stem = arch_path => f.parent = 0

\* the second vault is about to receive the archive of a removed directory
C19_Witness ==
    /\ pc = "upload" /\ vidx = 2
    /\ Events("rmtree", idx) # {}
    /\ Uploads(idx, 1) # {}

\* ------------------------------------------------------------------ C20
\* C20: no step removes an archive file, so the set of archive files only
\* grows; when a run has ended without a raise, the temp root holds no
\* staging directory and exactly one archive file for each source whose
\* extraction was non-empty, whatever its uploads returned.
C20_ArchivesLeftBehind ==
    /\ [][files \subseteq files']_vars
    /\ []((RunFinished /\ NoRaise) =>
            /\ dirs = {}
            /\ \A f \in files : f.parent = 0
            /\ {f.stem : f \in files} = {i \in 1..Len(sources) : NonEmpty(i)}
            /\ Cardinality(files) = Cardinality({i \in 1..Len(sources) : NonEmpty(i)}))

\* a finished run left one archive, of a source none of whose uploads was
\* confirmed, and none for the empty source
C20_Witness ==
    /\ RunFinished /\ NoRaise /\ Len(sources) = 2
    /\ Cardinality(files) = 1 /\ dirs = {}
    /\ \A k \in DOMAIN reports : reports[k].line = "Not uploaded to"
    /\ reports # <<>>

====
